---- MODULE Spec2Model ----
(***************************************************************************)
(* Hash join record source (src/jrd/recsrc/HashJoin.cpp): the key encoder  *)
(* (computeHash), the hash table with its collision lists, and the join    *)
(* driver (internalOpen / internalGetRecord / fetchRecord / close).        *)
(*                                                                         *)
(* One action per RecordSource entry point.  An action runs the whole      *)
(* call; the calls it makes on its children and on the hash table are      *)
(* written to `log`, in the order the code makes them.                     *)
(***************************************************************************)
EXTENDS Integers, Sequences, FiniteSets, TLC

VARIABLES
    leaderRows,          \* rows the leader source yields (one key value each)
    innerRows,           \* rows each inner source yields, by stream
    hashKind,            \* which 32-bit hash function InternalHash is
    irsb_flags,          \* Impure::irsb_flags
    irsb_hash_table,     \* Impure::irsb_hash_table
    irsb_leader_buffer,  \* Impure::irsb_leader_buffer
    irsb_leader_hash,    \* Impure::irsb_leader_hash
    leader,              \* m_leader.source: open flag, read position
    args,                \* m_args[i].buffer: open flag, position, current row
    log,                 \* calls made during the latest entry-point call
    lastCall,            \* the latest entry-point call
    lastResult,          \* what the latest getRecord returned
    emitted,             \* rows returned since the latest open
    stats,               \* per-cycle counts of child calls
    yielded,             \* per stream: what iterate gave since the cursor was set
    encoded              \* the keys of the latest computeHash call and its result

vars == <<leaderRows, innerRows, hashKind, irsb_flags, irsb_hash_table,
          irsb_leader_buffer, irsb_leader_hash, leader, args, log,
          lastCall, lastResult, emitted, stats, yielded, encoded>>

-----------------------------------------------------------------------------
(* Bounds of the model *)

MaxLeader == 2
MaxInner == 2
MaxKeys == 2

(* m_args.getCount(): the operator joins the leader with two inner streams *)
ArgCount == 2

(* Program constants *)
HASH_SIZE == 1009

(* FB_SIZE_T(~0): every bit set.  Written as -1, and compared as the      *)
(* unsigned value it is: above every count.                               *)
INVALID_ITERATOR == 0 - 1
UnsignedGE(a, b) == a < 0 \/ (b >= 0 /\ a >= b)

Streams == 0 .. (ArgCount - 1)

irsb_open == "irsb_open"
irsb_mustread == "irsb_mustread"
irsb_first == "irsb_first"

-----------------------------------------------------------------------------
(* Key values.  A row of a source is identified by the value its key       *)
(* expression evaluates to: EVL_expr gives a descriptor, or the null flag. *)

RECURSIVE Zeros(_)
Zeros(n) == IF n = 0 THEN <<>> ELSE <<0>> \o Zeros(n - 1)

RECURSIVE LittleEndian(_, _)
LittleEndian(v, n) ==
    IF n = 0 THEN <<>>
    ELSE <<v % 256>> \o LittleEndian(v \div 256, n - 1)

VNull == "NULL"
VZero == "0"
VOne == "1"
Vals == {VNull, VZero, VOne}

(* dsc of a dtype_long key: null flag, type and the stored bytes *)
EVL_expr(v) ==
    [null |-> v = VNull,
     dtype |-> "dtype_long",
     data |-> LittleEndian(IF v = VOne THEN 1 ELSE 0, 4)]

(* keyLengths / totalKeyLength of every sub-stream: one dtype_long key *)
KeyLengths == <<4>>

RECURSIVE SumSeq(_)
SumSeq(s) == IF s = <<>> THEN 0 ELSE Head(s) + SumSeq(Tail(s))

TotalKeyLength == SumSeq(KeyLengths)

-----------------------------------------------------------------------------
(* HashJoin::computeHash *)

memset(buf, at, n) ==
    [i \in 1 .. Len(buf) |-> IF i > at /\ i <= at + n THEN 0 ELSE buf[i]]

memcpy(buf, at, data, n) ==
    [i \in 1 .. Len(buf) |-> IF i > at /\ i <= at + n THEN data[i - at] ELSE buf[i]]

(* a float or double that compares equal to 0: every bit clear but the sign *)
IsFloatZero(data) ==
    \A i \in 1 .. Len(data) :
        IF i = Len(data) THEN data[i] \in {0, 128} ELSE data[i] = 0

(* a float or double copied as it is stored, zero or not *)
EncodeOne_RawFloat(buf, keyPtr, desc, keyLength) ==
    IF desc.null THEN buf ELSE memcpy(buf, keyPtr, desc.data, keyLength)

EncodeOne(buf, keyPtr, desc, keyLength) ==
    IF desc.null THEN buf
    ELSE IF desc.dtype \in {"dtype_real", "dtype_double"} /\ IsFloatZero(desc.data)
         THEN memset(buf, keyPtr, keyLength)
    ELSE memcpy(buf, keyPtr, desc.data, keyLength)

RECURSIVE EncodeKeys(_, _, _, _, _)
EncodeKeys(buf, keyPtr, descs, lens, i) ==
    IF i > Len(descs) THEN [buf |-> buf, keyPtr |-> keyPtr]
    ELSE EncodeKeys(EncodeOne(buf, keyPtr, descs[i], lens[i]),
                    keyPtr + lens[i], descs, lens, i + 1)

(* the buffer not cleared before the keys are written *)
KeyImage_NoClear(keyBuffer, descs, lens) == EncodeKeys(keyBuffer, 0, descs, lens, 1)

(* the key image left in keyBuffer, and the final keyPtr - keyBuffer *)
KeyImage(keyBuffer, descs, lens) ==
    EncodeKeys(memset(keyBuffer, 0, SumSeq(lens)), 0, descs, lens, 1)

(* InternalHash::hash: a deterministic 32-bit hash of the bytes.           *)
(*   "distinct": different images, different buckets                      *)
(*   "spread":   different images, different hashes in one bucket         *)
(*   "collide":  different images, one hash                               *)
HashKinds == {"distinct", "spread", "collide"}

InternalHash(kind, bytes) ==
    CASE kind = "distinct" -> SumSeq(bytes)
      [] kind = "spread" -> 1 + HASH_SIZE * SumSeq(bytes)
      [] OTHER -> 1

computeHash(kind, keyBuffer, descs, lens) ==
    LET k == KeyImage(keyBuffer, descs, lens)
    IN [buf |-> k.buf, hash |-> InternalHash(kind, k.buf)]

(* the encoded key image and the hash of a row with key value v *)
Encode(v) == KeyImage(Zeros(TotalKeyLength), <<EVL_expr(v)>>, KeyLengths).buf
HashOf(kind, v) == InternalHash(kind, Encode(v))

-----------------------------------------------------------------------------
(* HashJoin::HashTable::CollisionList *)

NewCollisionList == [m_collisions |-> <<>>, m_iterator |-> INVALID_ITERATOR]

CollisionList_add(cl, hash, position) ==
    [cl EXCEPT !.m_collisions = Append(@, [hash |-> hash, position |-> position])]

(* Entries in ascending hash order.  Entries of equal hash come in the     *)
(* order `pri` ranks their positions: the sort is not a stable one, so     *)
(* any order of equal hashes can be its result.                            *)
EntryLess(a, b, pri) ==
    \/ a.hash < b.hash
    \/ a.hash = b.hash /\ pri[a.position] < pri[b.position]

RECURSIVE InsertSorted(_, _, _)
InsertSorted(e, s, pri) ==
    IF s = <<>> THEN <<e>>
    ELSE IF EntryLess(e, Head(s), pri) THEN <<e>> \o s
    ELSE <<Head(s)>> \o InsertSorted(e, Tail(s), pri)

RECURSIVE SortEntries(_, _)
SortEntries(s, pri) ==
    IF s = <<>> THEN <<>>
    ELSE InsertSorted(Head(s), SortEntries(Tail(s), pri), pri)

CollisionList_sort(cl, pri) ==
    [cl EXCEPT !.m_collisions = SortEntries(@, pri)]

(* SortedArray::find: binary search for the lowest index whose key is not  *)
(* below `hash` (0-based); found when that entry's key equals `hash`.      *)
RECURSIVE LowerBound(_, _, _, _)
LowerBound(s, hash, lowBound, highBound) ==
    IF highBound > lowBound
    THEN LET temp == (highBound + lowBound) \div 2
         IN IF hash > s[temp + 1].hash
            THEN LowerBound(s, hash, temp + 1, highBound)
            ELSE LowerBound(s, hash, lowBound, temp)
    ELSE lowBound

SortedArray_find(s, hash) ==
    LET pos == LowerBound(s, hash, 0, Len(s))
    IN [pos |-> pos, found |-> pos < Len(s) /\ s[pos + 1].hash = hash]

(* the cursor put on the first entry of the list, whatever its hash *)
CollisionList_locate_First(cl, hash) ==
    IF cl.m_collisions # <<>>
    THEN [cl |-> [cl EXCEPT !.m_iterator = 0], ok |-> TRUE]
    ELSE [cl |-> [cl EXCEPT !.m_iterator = INVALID_ITERATOR], ok |-> FALSE]

CollisionList_locate(cl, hash) ==
    LET f == SortedArray_find(cl.m_collisions, hash)
    IN IF f.found
       THEN [cl |-> [cl EXCEPT !.m_iterator = f.pos], ok |-> TRUE]
       ELSE [cl |-> [cl EXCEPT !.m_iterator = INVALID_ITERATOR], ok |-> FALSE]

(* the entry under the cursor yielded without comparing its hash *)
CollisionList_iterate_NoHashCheck(cl, hash) ==
    IF UnsignedGE(cl.m_iterator, Len(cl.m_collisions))
    THEN [cl |-> cl, ok |-> FALSE, position |-> 0]
    ELSE [cl |-> [cl EXCEPT !.m_iterator = @ + 1], ok |-> TRUE,
          position |-> cl.m_collisions[cl.m_iterator + 1].position]

CollisionList_iterate(cl, hash) ==
    IF UnsignedGE(cl.m_iterator, Len(cl.m_collisions))
    THEN [cl |-> cl, ok |-> FALSE, position |-> 0]
    ELSE LET collision == cl.m_collisions[cl.m_iterator + 1]
         IN IF hash # collision.hash
            THEN [cl |-> [cl EXCEPT !.m_iterator = INVALID_ITERATOR],
                  ok |-> FALSE, position |-> 0]
            ELSE [cl |-> [cl EXCEPT !.m_iterator = @ + 1],
                  ok |-> TRUE, position |-> collision.position]

-----------------------------------------------------------------------------
(* HashJoin::HashTable.  m_collisions maps the allocated directory slots   *)
(* (stream * m_tableSize + slot) to their lists; a slot outside its domain *)
(* holds the null pointer.                                                 *)

NoTable == [alloc |-> FALSE, m_collisions |-> <<>>, m_slot |-> 0]
NewHashTable == [alloc |-> TRUE, m_collisions |-> <<>>, m_slot |-> 0]

SlotIndex(stream, slot) == stream * HASH_SIZE + slot

HashTable_put(t, stream, hash, position) ==
    LET slot == hash % HASH_SIZE
        idx == SlotIndex(stream, slot)
        collisions == IF idx \in DOMAIN t.m_collisions
                      THEN t.m_collisions[idx] ELSE NewCollisionList
    IN [t EXCEPT !.m_collisions =
            (idx :> CollisionList_add(collisions, hash, position)) @@ @]

(* the slot of the probe not remembered in m_slot *)
RECURSIVE SetupFrom_KeepSlot(_, _, _)
SetupFrom_KeepSlot(t, hash, i) ==
    IF i >= ArgCount THEN [t |-> t, ok |-> TRUE]
    ELSE IF SlotIndex(i, hash % HASH_SIZE) \notin DOMAIN t.m_collisions
         THEN [t |-> t, ok |-> FALSE]
    ELSE IF ~CollisionList_locate(t.m_collisions[SlotIndex(i, hash % HASH_SIZE)], hash).ok
         THEN [t |-> t, ok |-> FALSE]
    ELSE SetupFrom_KeepSlot(
            [t EXCEPT !.m_collisions[SlotIndex(i, hash % HASH_SIZE)] =
                          CollisionList_locate(@, hash).cl],
            hash, i + 1)

(* m_slot set before the lists are looked up *)
SetupFrom_SlotEarly(t, hash, i) ==
    SetupFrom_KeepSlot([t EXCEPT !.m_slot = hash % HASH_SIZE], hash, i)

RECURSIVE SetupFrom(_, _, _)
SetupFrom(t, hash, i) ==
    LET slot == hash % HASH_SIZE
        idx == SlotIndex(i, slot)
    IN IF i >= ArgCount THEN [t |-> [t EXCEPT !.m_slot = slot], ok |-> TRUE]
       ELSE IF idx \notin DOMAIN t.m_collisions THEN [t |-> t, ok |-> FALSE]
       ELSE LET l == CollisionList_locate(t.m_collisions[idx], hash)
                t2 == [t EXCEPT !.m_collisions[idx] = l.cl]
            IN IF ~l.ok THEN [t |-> t2, ok |-> FALSE]
               ELSE SetupFrom(t2, hash, i + 1)

(* only the first stream's slot looked up *)
HashTable_setup_FirstOnly(t, hash) ==
    IF SlotIndex(0, hash % HASH_SIZE) \notin DOMAIN t.m_collisions
    THEN [t |-> t, ok |-> FALSE]
    ELSE [t |-> [t EXCEPT !.m_collisions[SlotIndex(0, hash % HASH_SIZE)] =
                            CollisionList_locate(@, hash).cl,
                          !.m_slot = hash % HASH_SIZE],
          ok |-> CollisionList_locate(
                    t.m_collisions[SlotIndex(0, hash % HASH_SIZE)], hash).ok]

HashTable_setup(t, hash) == SetupFrom(t, hash, 0)

(* the cursor left where it stands *)
HashTable_reset_Keep(t, stream, hash) == [t |-> t, fault |-> FALSE]

(* reset and iterate dereference m_collisions[stream * m_tableSize +       *)
(* m_slot] unchecked: `fault` tells that the pointer was null.             *)
HashTable_reset(t, stream, hash) ==
    LET idx == SlotIndex(stream, t.m_slot)
    IN IF idx \notin DOMAIN t.m_collisions THEN [t |-> t, fault |-> TRUE]
       ELSE [t |-> [t EXCEPT !.m_collisions[idx] =
                        CollisionList_locate(@, hash).cl],
             fault |-> FALSE]

HashTable_iterate(t, stream, hash) ==
    LET idx == SlotIndex(stream, t.m_slot)
    IN IF idx \notin DOMAIN t.m_collisions
       THEN [t |-> t, ok |-> FALSE, position |-> 0, fault |-> TRUE]
       ELSE LET r == CollisionList_iterate(t.m_collisions[idx], hash)
            IN [t |-> [t EXCEPT !.m_collisions[idx] = r.cl],
                ok |-> r.ok, position |-> r.position, fault |-> FALSE]

HashTable_sort(t, pri) ==
    [t EXCEPT !.m_collisions =
        [idx \in DOMAIN t.m_collisions |->
            CollisionList_sort(t.m_collisions[idx], pri[idx \div HASH_SIZE])]]

-----------------------------------------------------------------------------
(* The children.  m_leader.source is a RecordSource, m_args[i].buffer a    *)
(* BufferedStream over the i-th inner source: open rewinds, getRecord      *)
(* yields the row at the position and steps past it, locate sets the       *)
(* position.  `cur` is the row the stream currently holds (-1: none).      *)

ClosedStream == [open |-> FALSE, pos |-> 0, cur |-> 0 - 1]

Stream_open(st) == [open |-> TRUE, pos |-> 0, cur |-> 0 - 1]

Stream_close(st) == ClosedStream

Stream_getRecord(st, rows) ==
    IF st.pos < Len(rows)
    THEN [st |-> [st EXCEPT !.cur = st.pos, !.pos = st.pos + 1], ok |-> TRUE]
    ELSE [st |-> st, ok |-> FALSE]

BufferedStream_locate(st, position) == [st EXCEPT !.pos = position]

-----------------------------------------------------------------------------
(* The state one entry-point call works on: the Impure fields, the         *)
(* children, and the record of the calls made.                             *)

NoBuffer == [alloc |-> FALSE, bytes |-> <<>>]

(* memory that was allocated and not yet written *)
RECURSIVE Unwritten(_)
Unwritten(n) == IF n = 0 THEN <<>> ELSE <<170>> \o Unwritten(n - 1)

Ev(op, s, x, ok) == [op |-> op, s |-> s, x |-> x, ok |-> ok]

Logged(im, e) == [im EXCEPT !.log = Append(@, e)]

NoStats ==
    [leaderOpen |-> 0, leaderClose |-> 0, build |-> 0,
     argOpen |-> [s \in Streams |-> 0], argClose |-> [s \in Streams |-> 0],
     argRead |-> [s \in Streams |-> 0], locate |-> [s \in Streams |-> 0]]

Impure ==
    [flags |-> irsb_flags, table |-> irsb_hash_table,
     buf |-> irsb_leader_buffer, lhash |-> irsb_leader_hash,
     leader |-> leader, args |-> args, log |-> <<>>, stats |-> stats,
     fault |-> FALSE]

(* the outcome of a call that reports success: the state and the result *)
Ret(im, ok) == [im |-> im, ok |-> ok]

LeaderGot(im, r) ==
    Ret(Logged([im EXCEPT !.leader = r.st],
               Ev("leader.getRecord", 0 - 1,
                  IF irsb_mustread \in im.flags THEN 1 ELSE 0, r.ok)),
        r.ok)

Leader_getRecord(im) == LeaderGot(im, Stream_getRecord(im.leader, leaderRows))

ArgGot(im, i, r) ==
    Ret(Logged([im EXCEPT !.args[i] = r.st], Ev("arg.getRecord", i, r.st.cur, r.ok)),
        r.ok)

Arg_getRecord(im, i) == ArgGot(im, i, Stream_getRecord(im.args[i], innerRows[i]))

Arg_locate(im, i, position) ==
    Logged([im EXCEPT !.args[i] = BufferedStream_locate(@, position),
                      !.stats.locate[i] = @ + 1],
           Ev("arg.locate", i, position, TRUE))

-----------------------------------------------------------------------------
(* HashJoin::internalGetRecord, lines 374-402: read and cache the inner    *)
(* streams, hash the join keys and populate the hash table.                *)

(* lines 396-397: hash the row just read and put it at `counter` *)
PutRow(im, i, counter, h) ==
    Logged([im EXCEPT !.table = HashTable_put(@, i, h.hash, counter),
                      !.stats.argRead[i] = @ + 1],
           Ev("put", i, counter, TRUE))

RECURSIVE BuildRows(_, _, _, _)

BuildRow(r, i, counter, keyBuffer, h) ==
    IF ~r.ok THEN r.im
    ELSE BuildRows(PutRow(r.im, i, counter, h), i, counter + 1, h.buf)

(* the while loop of lines 394-398 *)
BuildRows(im, i, counter, keyBuffer) ==
    BuildRow(Arg_getRecord(im, i), i, counter, keyBuffer,
             computeHash(hashKind, keyBuffer,
                         <<EVL_expr(innerRows[i][im.args[i].pos + 1])>>,
                         KeyLengths))

Arg_open(im, i) ==
    Logged([im EXCEPT !.args[i] = Stream_open(@), !.stats.argOpen[i] = @ + 1],
           Ev("arg.open", i, 0, TRUE))

(* the for loop of lines 384-399 *)
RECURSIVE BuildStreams(_, _, _)
BuildStreams(im, i, keyBuffer) ==
    IF i >= ArgCount THEN im
    ELSE BuildStreams(BuildRows(Arg_open(im, i), i, 0, keyBuffer), i + 1, keyBuffer)

(* lines 379-380 *)
Allocate(im) ==
    Logged([im EXCEPT !.table = NewHashTable,
                      !.buf = [alloc |-> TRUE, bytes |-> Unwritten(TotalKeyLength)],
                      !.stats.build = @ + 1],
           Ev("new", 0 - 1, 0, TRUE))

(* the table left in the order the rows were put in *)
SortTable_Skip(im, pri) == Logged(im, Ev("sort", 0 - 1, 0, TRUE))

(* line 401 *)
SortTable(im, pri) ==
    Logged([im EXCEPT !.table = HashTable_sort(@, pri)], Ev("sort", 0 - 1, 0, TRUE))

BuildHashTable(im, pri) ==
    SortTable(BuildStreams(Allocate(im), 0, Unwritten(TotalKeyLength)), pri)

(* the table rebuilt for every leader row *)
NeedsBuild_Always(im) == TRUE

(* line 374 *)
NeedsBuild(im) == ~im.table.alloc /\ ~im.buf.alloc

-----------------------------------------------------------------------------
(* HashJoin::fetchRecord *)

(* lines 622-628 and 637-643: on a hit, locate the buffered stream there   *)
(* and fetch                                                               *)
FetchHit(im, stream, it) ==
    IF it.ok
    THEN Arg_getRecord(
            Arg_locate(Logged([im EXCEPT !.table = it.t],
                              Ev("iterate", stream, it.position, TRUE)),
                       stream, it.position),
            stream)
    ELSE Ret(Logged([im EXCEPT !.table = it.t, !.fault = @ \/ it.fault],
                    Ev("iterate", stream, IF it.fault THEN INVALID_ITERATOR ELSE 0,
                       FALSE)),
             FALSE)

FetchAt(im, stream) == FetchHit(im, stream, HashTable_iterate(im.table, stream, im.lhash))

(* line 635 *)
ResetDone(im, stream, r) ==
    Logged([im EXCEPT !.table = r.t, !.fault = @ \/ r.fault],
           Ev("reset", stream, 0, ~r.fault))

(* the cursor left where the last iterate put it *)
ResetAt_Skip(im, stream) == im

ResetAt(im, stream) == ResetDone(im, stream, HashTable_reset(im.table, stream, im.lhash))

RECURSIVE fetchRecord(_, _)
RECURSIVE FetchCarry(_, _)

OrCarry(a, stream) == IF a.ok THEN a ELSE FetchCarry(a.im, stream)

(* lines 632-643: the predecessor has been asked to advance *)
CarryOn(p, stream) ==
    IF ~p.ok THEN Ret(p.im, FALSE)
    ELSE OrCarry(FetchAt(ResetAt(p.im, stream), stream), stream)

(* no carry into the predecessor stream *)
FetchCarry_NoCarry(im, stream) == Ret(im, FALSE)

(* the first stream started over when it has run out: an odometer that     *)
(* wraps around                                                            *)
FetchCarry_Wrap(im, stream) ==
    IF im.fault THEN Ret(im, FALSE)
    ELSE IF stream = 0 THEN FetchAt(ResetAt(im, 0), 0)
    ELSE CarryOn(fetchRecord(im, stream - 1), stream)

(* the while (true) loop of lines 630-644 *)
FetchCarry(im, stream) ==
    IF stream = 0 \/ im.fault THEN Ret(im, FALSE)
    ELSE CarryOn(fetchRecord(im, stream - 1), stream)

fetchRecord(im, stream) == OrCarry(FetchAt(im, stream), stream)

-----------------------------------------------------------------------------
(* HashJoin::internalGetRecord *)

(* lines 425-432: the first match of every inner stream, in stream order *)
RECURSIVE FetchFirst(_, _)

FirstNext(r, i) == IF ~r.ok THEN r ELSE FetchFirst(r.im, i + 1)

FetchFirst(im, i) ==
    IF i >= ArgCount THEN Ret(im, TRUE) ELSE FirstNext(fetchRecord(im, i), i)

(* irsb_first left set when the first combination is returned *)
FirstDone_KeepFirst(r) ==
    IF ~r.ok THEN Ret([r.im EXCEPT !.flags = @ \cup {irsb_mustread}], FALSE) ELSE r

(* lines 434-440 *)
FirstDone(r) ==
    IF ~r.ok THEN Ret([r.im EXCEPT !.flags = @ \cup {irsb_mustread}], FALSE)
    ELSE Ret([r.im EXCEPT !.flags = @ \ {irsb_first}], TRUE)

(* lines 442-446 *)
NextDone(r) ==
    IF ~r.ok THEN Ret([r.im EXCEPT !.flags = @ \cup {irsb_mustread}], FALSE)
    ELSE r

(* lines 421-446: ok tells whether the loop is left by the break *)
FetchCollisions(im) ==
    IF irsb_first \in im.flags
    THEN FirstDone(FetchFirst(im, 0))
    ELSE NextDone(fetchRecord(im, ArgCount - 1))

(* lines 406-407 *)
HashLeader(im, h) ==
    Logged([im EXCEPT !.buf.bytes = h.buf, !.lhash = h.hash],
           Ev("computeHash", 0 - 1, h.hash, im.buf.alloc))

(* the result of setup not looked at *)
SetupDone_IgnoreResult(im, su) ==
    Ret(Logged([im EXCEPT !.table = su.t,
                          !.flags = (@ \ {irsb_mustread}) \cup {irsb_first}],
               Ev("setup", 0 - 1, im.lhash, TRUE)),
        TRUE)

(* lines 412-416 *)
SetupDone(im, su) ==
    IF ~su.ok
    THEN Ret(Logged([im EXCEPT !.table = su.t], Ev("setup", 0 - 1, im.lhash, FALSE)),
             FALSE)
    ELSE Ret(Logged([im EXCEPT !.table = su.t,
                               !.flags = (@ \ {irsb_mustread}) \cup {irsb_first}],
                    Ev("setup", 0 - 1, im.lhash, TRUE)),
             TRUE)

SetupLeader(im) == SetupDone(im, HashTable_setup(im.table, im.lhash))

(* lines 404-416: hash the leader keys and set the table up for them *)
ProbeLeader(im) ==
    SetupLeader(HashLeader(im,
        computeHash(hashKind, im.buf.bytes,
                    <<EVL_expr(leaderRows[im.leader.cur + 1])>>, KeyLengths)))

RECURSIVE GetLoop(_, _)

(* `continue` on a failure, `break` on a hit *)
OrAgain(f, pri) == IF f.ok THEN f ELSE GetLoop(f.im, pri)

Probed(p, pri) ==
    IF ~p.ok THEN GetLoop(p.im, pri) ELSE OrAgain(FetchCollisions(p.im), pri)

(* lines 369-416: the leader has been asked for its next record *)
LeaderRead(r, pri) ==
    IF ~r.ok THEN Ret(r.im, FALSE)
    ELSE IF NeedsBuild(r.im) THEN Probed(ProbeLeader(BuildHashTable(r.im, pri)), pri)
    ELSE Probed(ProbeLeader(r.im), pri)

(* the leader advanced on every pass, whatever irsb_mustread says *)
GetLoop_AlwaysRead(im, pri) ==
    IF im.fault THEN Ret(im, FALSE) ELSE LeaderRead(Leader_getRecord(im), pri)

(* the while (true) loop of lines 363-449 *)
GetLoop(im, pri) ==
    IF im.fault THEN Ret(im, FALSE)
    ELSE IF irsb_mustread \in im.flags THEN LeaderRead(Leader_getRecord(im), pri)
    ELSE OrAgain(FetchCollisions(im), pri)

(* the irsb_open test left out *)
internalGetRecord_NoOpenCheck(im, pri) == GetLoop(im, pri)

internalGetRecord(im, pri) ==
    IF irsb_open \notin im.flags THEN Ret(im, FALSE) ELSE GetLoop(im, pri)

-----------------------------------------------------------------------------
(* HashJoin::internalOpen *)

(* the inner streams opened along with the leader *)
internalOpen_Eager(im) ==
    Arg_open(Arg_open(
        Logged([im EXCEPT !.flags = {irsb_open, irsb_mustread},
                          !.table = NoTable,
                          !.buf = NoBuffer,
                          !.leader = Stream_open(@),
                          !.stats = [NoStats EXCEPT !.leaderOpen = 1]],
               Ev("leader.open", 0 - 1, 0, TRUE)), 0), ArgCount - 1)

(* the flags set, the table and the buffer of the earlier cycle kept *)
internalOpen_KeepState(im) ==
    Logged([im EXCEPT !.flags = @ \cup {irsb_open, irsb_mustread},
                      !.leader = Stream_open(@),
                      !.stats = [NoStats EXCEPT !.leaderOpen = 1]],
           Ev("leader.open", 0 - 1, 0, TRUE))

internalOpen(im) ==
    Logged([im EXCEPT !.flags = {irsb_open, irsb_mustread},
                      !.table = NoTable,
                      !.buf = NoBuffer,
                      !.leader = Stream_open(@),
                      !.stats = [NoStats EXCEPT !.leaderOpen = 1]],
           Ev("leader.open", 0 - 1, 0, TRUE))

(* HashJoin::close *)

RECURSIVE CloseArgs(_, _)
CloseArgs(im, i) ==
    IF i >= ArgCount THEN im
    ELSE CloseArgs(Logged([im EXCEPT !.args[i] = Stream_close(@),
                                     !.stats.argClose[i] = @ + 1],
                          Ev("arg.close", i, 0, TRUE)),
                   i + 1)

(* lines 338-349 *)
CloseOpen(im) ==
    Logged([CloseArgs([im EXCEPT !.flags = @ \ {irsb_open},
                                 !.table = NoTable,
                                 !.buf = NoBuffer], 0)
               EXCEPT !.leader = Stream_close(@), !.stats.leaderClose = @ + 1],
           Ev("leader.close", 0 - 1, 0, TRUE))

(* the irsb_open test left out *)
close_Unguarded(im) == CloseOpen(Logged(im, Ev("invalidateRecords", 0 - 1, 0, TRUE)))

close(im) ==
    IF irsb_open \in im.flags
    THEN CloseOpen(Logged(im, Ev("invalidateRecords", 0 - 1, 0, TRUE)))
    ELSE Logged(im, Ev("invalidateRecords", 0 - 1, 0, TRUE))

-----------------------------------------------------------------------------
(* The specification: a consumer that calls open, getRecord and close in   *)
(* any order on one operator, over every input within the bounds.          *)

SeqsUpTo(S, n) == UNION {[1 .. k -> S] : k \in 0 .. n}

(* rankings of the positions 0 .. n-1 *)
Rankings(n) ==
    {f \in [0 .. (n - 1) -> 0 .. (n - 1)] :
        \A a, b \in 0 .. (n - 1) : a # b => f[a] # f[b]}

(* the orders the sort may leave equal hashes in; the sort runs only in a  *)
(* call that builds the table                                              *)
SortOutcomes ==
    IF /\ irsb_open \in irsb_flags /\ irsb_mustread \in irsb_flags
       /\ ~irsb_hash_table.alloc /\ ~irsb_leader_buffer.alloc
    THEN {pri \in [Streams -> Rankings(MaxInner)] : TRUE}
    ELSE {[s \in Streams |-> [q \in 0 .. (MaxInner - 1) |-> q]]}

(* nothing iterated, nothing encoded *)
CursorSet(from, at) == [positions |-> <<>>, ended |-> FALSE, from |-> from, at |-> at]
NoYield == [ok |-> FALSE, by |-> [s \in Streams |-> CursorSet("none", 0)]]
NoEncoding == [dtypes |-> <<>>, keys |-> <<>>, keyPtr |-> 0, stale |-> FALSE]

Output(im) == [leader |-> im.leader.cur, inner |-> [s \in Streams |-> im.args[s].cur]]

Store(im) ==
    /\ irsb_flags' = im.flags
    /\ irsb_hash_table' = im.table
    /\ irsb_leader_buffer' = im.buf
    /\ irsb_leader_hash' = im.lhash
    /\ leader' = im.leader
    /\ args' = im.args
    /\ log' = im.log
    /\ stats' = im.stats

Init ==
    /\ leaderRows \in SeqsUpTo(Vals, MaxLeader)
    /\ innerRows \in [Streams -> SeqsUpTo(Vals, MaxInner)]
    /\ hashKind \in HashKinds
    /\ irsb_flags = {}
    /\ irsb_hash_table = NoTable
    /\ irsb_leader_buffer = NoBuffer
    /\ irsb_leader_hash = 0
    /\ leader = ClosedStream
    /\ args = [s \in Streams |-> ClosedStream]
    /\ log = <<>>
    /\ lastCall = "none"
    /\ lastResult = "none"
    /\ emitted = <<>>
    /\ stats = NoStats
    /\ yielded = NoYield
    /\ encoded = NoEncoding

Open ==
    /\ Store(internalOpen(Impure))
    /\ lastCall' = "open"
    /\ lastResult' = "none"
    /\ emitted' = <<>>
    /\ UNCHANGED <<leaderRows, innerRows, hashKind, yielded, encoded>>

Returned(r) ==
    /\ Store(r.im)
    /\ lastCall' = "getRecord"
    /\ lastResult' = IF r.ok THEN "true" ELSE "false"
    /\ emitted' = IF r.ok THEN Append(emitted, Output(r.im)) ELSE emitted
    /\ UNCHANGED <<leaderRows, innerRows, hashKind, yielded, encoded>>

GetRecord == \E pri \in SortOutcomes : Returned(internalGetRecord(Impure, pri))

Close ==
    /\ Store(close(Impure))
    /\ lastCall' = "close"
    /\ lastResult' = "none"
    /\ UNCHANGED <<leaderRows, innerRows, hashKind, emitted, yielded, encoded>>

Next == Open \/ GetRecord \/ Close

Spec == Init /\ [][Next]_vars

-----------------------------------------------------------------------------
(* What the claims speak of *)

LeaderKey(l) == leaderRows[l + 1]
InnerKey(s, p) == innerRows[s][p + 1]
LeaderIdx == 0 .. (Len(leaderRows) - 1)

(* one row position per inner stream *)
Combos == {c \in [Streams -> 0 .. (MaxInner - 1)] : \A s \in Streams : c[s] < Len(innerRows[s])}

BytesMatch(l, c) == \A s \in Streams : Encode(LeaderKey(l)) = Encode(InnerKey(s, c[s]))

EmittedCount(l, c) ==
    Cardinality({i \in DOMAIN emitted : emitted[i].leader = l /\ emitted[i].inner = c})
EmittedOf(l) == {i \in DOMAIN emitted : emitted[i].leader = l}

IsOpen == irsb_open \in irsb_flags
ReturnedTrue == lastCall = "getRecord" /\ lastResult = "true"
(* getRecord was called until it returned false *)
Drained == IsOpen /\ lastCall = "getRecord" /\ lastResult = "false"
(* every output for leader row l has been asked for *)
LeaderDone(l) == IsOpen /\ (leader.cur > l \/ Drained)

(* C1: once getRecord has returned false after an open, every leader row   *)
(* and every choice of one row per inner stream with the leader's encoded  *)
(* key bytes has been emitted exactly once.                                *)
C1_EmissionComplete ==
    Drained =>
        \A l \in LeaderIdx : \A c \in Combos : BytesMatch(l, c) => EmittedCount(l, c) = 1

C1_Witness ==
    /\ Drained
    /\ \E l \in LeaderIdx :
          /\ Cardinality(Combos) = MaxInner * MaxInner
          /\ \A c \in Combos : BytesMatch(l, c)

CurrentBytesEqual ==
    \A s \in Streams : Encode(LeaderKey(leader.cur)) = Encode(InnerKey(s, args[s].cur))
CurrentHashEqual ==
    \A s \in Streams :
        HashOf(hashKind, LeaderKey(leader.cur)) = HashOf(hashKind, InnerKey(s, args[s].cur))
(* the hash function in use gives different key images different hashes *)
HashInjective ==
    \A v, w \in Vals : HashOf(hashKind, v) = HashOf(hashKind, w) => Encode(v) = Encode(w)

(* C2 as stated: whenever getRecord returns true, the current leader row   *)
(* and the current row of every inner stream have bytewise-equal encoded   *)
(* keys, whatever the hash function.                                       *)
C2_BytesEqualForAnyHash == ReturnedTrue => CurrentBytesEqual

(* C2 amended: whenever getRecord returns true, the current leader row and *)
(* the current row of every inner stream have equal 32-bit key hashes;     *)
(* their encoded keys are bytewise equal when the hash function gives      *)
(* different key images different hashes.                                  *)
C2_HashEqual ==
    ReturnedTrue => CurrentHashEqual /\ (HashInjective => CurrentBytesEqual)

C2_Witness == ReturnedTrue /\ ~HashInjective /\ ~CurrentBytesEqual

HashMatches(l, s) ==
    {p \in 0 .. (Len(innerRows[s]) - 1) :
        HashOf(hashKind, InnerKey(s, p)) = HashOf(hashKind, LeaderKey(l))}
HashProduct(l) == {c \in Combos : \A s \in Streams : c[s] \in HashMatches(l, s)}

RECURSIVE ProductOfCounts(_, _)
ProductOfCounts(l, s) ==
    IF s >= ArgCount THEN 1
    ELSE Cardinality(HashMatches(l, s)) * ProductOfCounts(l, s + 1)

(* C3: the combinations emitted for a leader row are rows whose hash is    *)
(* the leader hash, and once the leader row is done they are the whole     *)
(* Cartesian product of those rows, one output each.                       *)
C3_HashProduct ==
    \A l \in LeaderIdx :
        /\ \A i \in EmittedOf(l) : emitted[i].inner \in HashProduct(l)
        /\ LeaderDone(l) =>
              /\ {emitted[i].inner : i \in EmittedOf(l)} = HashProduct(l)
              /\ Cardinality(EmittedOf(l)) = ProductOfCounts(l, 0)

C3_Witness ==
    \E l \in LeaderIdx :
        /\ LeaderDone(l)
        /\ Cardinality(EmittedOf(l)) = MaxInner * MaxInner
        /\ \E c \in HashProduct(l) : ~BytesMatch(l, c)

(* C4: no emitted output holds a leader row or an inner row whose key is   *)
(* NULL.                                                                   *)
C4_NullNeverEmitted ==
    \A i \in DOMAIN emitted :
        /\ LeaderKey(emitted[i].leader) # VNull
        /\ \A s \in Streams : InnerKey(s, emitted[i].inner[s]) # VNull

(* C5: the outputs come in the leader's order, and the leader is asked for *)
(* a record only while irsb_mustread is set.                               *)
C5_LeaderOrder ==
    /\ \A i, j \in DOMAIN emitted : i < j => emitted[i].leader <= emitted[j].leader
    /\ \A k \in DOMAIN log : log[k].op = "leader.getRecord" => log[k].x = 1

C5_Witness ==
    /\ ReturnedTrue
    /\ Len(emitted) >= 2
    /\ emitted[1].leader < emitted[Len(emitted)].leader
    /\ \E k \in DOMAIN log : log[k].op = "leader.getRecord"

(* the entries of stream s's collision list for hash h, in list order *)
HasHash(e, h) == e.hash = h
RECURSIVE PositionsWith(_, _)
PositionsWith(list, h) ==
    IF list = <<>> THEN <<>>
    ELSE (IF HasHash(Head(list), h) THEN <<Head(list).position>> ELSE <<>>)
         \o PositionsWith(Tail(list), h)

MatchSeq(s, h) ==
    IF SlotIndex(s, h % HASH_SIZE) \in DOMAIN irsb_hash_table.m_collisions
    THEN PositionsWith(irsb_hash_table.m_collisions[SlotIndex(s, h % HASH_SIZE)].m_collisions, h)
    ELSE <<>>

RECURSIVE Cross(_, _)
Cross(ms, tails) ==
    IF ms = <<>> THEN <<>>
    ELSE [k \in 1 .. Len(tails) |-> <<Head(ms)>> \o tails[k]] \o Cross(Tail(ms), tails)

(* right-major: the first stream turns slowest, the last one fastest *)
RECURSIVE Odometer(_, _)
Odometer(s, h) ==
    IF s >= ArgCount THEN << <<>> >> ELSE Cross(MatchSeq(s, h), Odometer(s + 1, h))

RECURSIVE InnerSeqOf(_, _)
InnerSeqOf(es, l) ==
    IF es = <<>> THEN <<>>
    ELSE (IF Head(es).leader = l
          THEN << [k \in 1 .. ArgCount |-> Head(es).inner[k - 1]] >> ELSE <<>>)
         \o InnerSeqOf(Tail(es), l)

IsPrefix(a, b) == Len(a) <= Len(b) /\ \A k \in 1 .. Len(a) : a[k] = b[k]

(* C6: while the table stands, the outputs of one leader row are the first *)
(* ones of the right-major enumeration of the streams' matching entries,   *)
(* taken in collision-list order, and all of it once the row is done; a    *)
(* continuation call starts by advancing the last stream.                  *)
C6_OdometerOrder ==
    /\ (IsOpen /\ irsb_hash_table.alloc) =>
          \A l \in LeaderIdx :
              /\ IsPrefix(InnerSeqOf(emitted, l),
                          Odometer(0, HashOf(hashKind, LeaderKey(l))))
              /\ LeaderDone(l) =>
                    InnerSeqOf(emitted, l) = Odometer(0, HashOf(hashKind, LeaderKey(l)))
    /\ (lastCall = "getRecord" /\ log # <<>> /\ log[1].op # "leader.getRecord") =>
          log[1].op = "iterate" /\ log[1].s = ArgCount - 1

C6_Witness ==
    /\ IsOpen /\ irsb_hash_table.alloc
    /\ \E l \in LeaderIdx :
          /\ LeaderDone(l)
          /\ Len(InnerSeqOf(emitted, l)) = MaxInner * MaxInner

ChildCloses(lg) == {k \in DOMAIN lg : lg[k].op \in {"arg.close", "leader.close"}}

(* C7: close on an operator that is not open leaves flags, table and       *)
(* buffer as they are and closes no child; after open ... close; close     *)
(* every child has been closed once.                                       *)
C7_IdempotentClose ==
    /\ [][(lastCall' = "close" /\ ~IsOpen) =>
             /\ irsb_flags' = irsb_flags
             /\ irsb_hash_table' = irsb_hash_table
             /\ irsb_leader_buffer' = irsb_leader_buffer
             /\ ChildCloses(log') = {}
             /\ stats' = stats]_vars
    /\ [](lastCall = "close" /\ stats.leaderOpen = 1 =>
             /\ stats.leaderClose = 1
             /\ \A s \in Streams : stats.argClose[s] = 1)

C7_Witness ==
    /\ lastCall = "close" /\ stats.leaderOpen = 1
    /\ ChildCloses(log) = {}
    /\ emitted # <<>>

(* C8: getRecord on an operator that is not open returns false and makes   *)
(* no call on a child, on the pool or on the table, whatever irsb_mustread *)
(* was left at.                                                            *)
C8_ClosedGetRecord ==
    [][(lastCall' = "getRecord" /\ ~IsOpen) =>
          /\ lastResult' = "false"
          /\ log' = <<>>
          /\ leader' = leader /\ args' = args
          /\ irsb_hash_table' = irsb_hash_table
          /\ irsb_leader_buffer' = irsb_leader_buffer
          /\ emitted' = emitted]_vars

C8_Witness ==
    /\ lastCall = "getRecord" /\ ~IsOpen
    /\ stats.leaderClose = 1
    /\ irsb_mustread \notin irsb_flags

(* C9: in one cycle every inner stream is opened at most once and each of  *)
(* its rows read into the table at most once; the table is built at most   *)
(* once, and it has been built exactly when the leader has given a row.    *)
C9_BuildOnce ==
    /\ stats.build <= 1
    /\ \A s \in Streams :
          /\ stats.argOpen[s] <= 1
          /\ stats.argRead[s] <= Len(innerRows[s])
    /\ IsOpen => (stats.build = 1 <=> leader.pos > 0)
    /\ IsOpen /\ stats.build = 1 =>
          \A s \in Streams : stats.argOpen[s] = 1 /\ stats.argRead[s] = Len(innerRows[s])

C9_Witness ==
    /\ IsOpen /\ stats.build = 1
    /\ leader.cur = 1
    /\ Len(emitted) >= 2
    /\ \A s \in Streams : stats.argRead[s] = MaxInner

(* C10: in one cycle each inner stream is located at most as many times as *)
(* getRecord has returned a row.                                           *)
C10_LocateCount ==
    \A s \in Streams : 0 <= stats.locate[s] /\ stats.locate[s] <= Len(emitted)

C10_Witness ==
    /\ Len(emitted) >= 2
    /\ \E s \in Streams : stats.locate[s] = Len(emitted)
    /\ \E s \in Streams : stats.locate[s] < Len(emitted)

-----------------------------------------------------------------------------
LeaderGaveRowBefore(k) ==
    \E j \in 1 .. (k - 1) : log[j].op = "leader.getRecord" /\ log[j].ok

(* C11: open opens the leader and nothing else; the table is allocated and *)
(* an inner stream opened only after the leader has given a row in the     *)
(* same call, an inner stream is read or located only when the leader has  *)
(* given a row in the cycle, and while the leader has given none the table *)
(* and the leader buffer are null and no inner stream was opened or read.  *)
C11_LazyBuild ==
    /\ lastCall = "open" => log = <<Ev("leader.open", 0 - 1, 0, TRUE)>>
    /\ \A k \in DOMAIN log :
          /\ log[k].op \in {"new", "arg.open"} => LeaderGaveRowBefore(k)
          /\ log[k].op \in {"arg.getRecord", "arg.locate"} => leader.pos > 0
    /\ (IsOpen /\ leader.pos = 0) =>
          /\ ~irsb_hash_table.alloc /\ ~irsb_leader_buffer.alloc
          /\ \A s \in Streams : stats.argOpen[s] = 0 /\ stats.argRead[s] = 0

C11_Witness ==
    /\ Drained
    /\ leaderRows = <<>>
    /\ \A s \in Streams : Len(innerRows[s]) = MaxInner
    /\ log = <<Ev("leader.getRecord", 0 - 1, 1, FALSE)>>
    /\ ~irsb_hash_table.alloc /\ ~irsb_leader_buffer.alloc

-----------------------------------------------------------------------------
SortIndex == {k \in DOMAIN log : log[k].op = "sort"}

RECURSIVE PutsOf(_, _)
PutsOf(lg, s) ==
    IF lg = <<>> THEN <<>>
    ELSE (IF Head(lg).op = "put" /\ Head(lg).s = s THEN <<Head(lg).x>> ELSE <<>>)
         \o PutsOf(Tail(lg), s)

ListOf(idx) == irsb_hash_table.m_collisions[idx].m_collisions

SortedByHash(list) ==
    \A a, b \in DOMAIN list : a < b => list[a].hash <= list[b].hash

(* the entries of stream s in the table that stand for row p *)
EntriesOf(s, p) ==
    {<<idx, k>> \in UNION {{idx} \X DOMAIN ListOf(idx) :
                              idx \in DOMAIN irsb_hash_table.m_collisions} :
        /\ idx \div HASH_SIZE = s
        /\ ListOf(idx)[k].position = p}

RowIndexed(s, p) ==
    /\ Cardinality(EntriesOf(s, p)) = 1
    /\ \A e \in EntriesOf(s, p) :
          /\ e[1] = SlotIndex(s, HashOf(hashKind, InnerKey(s, p)) % HASH_SIZE)
          /\ ListOf(e[1])[e[2]].hash = HashOf(hashKind, InnerKey(s, p))

(* C12: in the call that builds the table every inner stream is read until *)
(* it gives no more, each row read is put at once with the positions       *)
(* 0, 1, 2, ... in read order, every put comes before the sort and every   *)
(* setup, reset and iterate after it; a put is made in no other call.      *)
(* Whenever a row has been returned in a cycle the table holds every row   *)
(* of every inner stream once, under its hash, and every collision list is *)
(* in ascending hash order.                                                *)
C12_BuildBeforeOutput ==
    /\ \A j \in DOMAIN log :
          /\ log[j].op = "put" =>
                /\ \E k \in SortIndex : j < k
                /\ j > 1 /\ log[j - 1] = Ev("arg.getRecord", log[j].s, log[j].x, TRUE)
          /\ log[j].op \in {"setup", "reset", "iterate"} =>
                \A k \in SortIndex : k < j
    /\ SortIndex # {} =>
          \A s \in Streams :
              /\ PutsOf(log, s) = [p \in 1 .. Len(innerRows[s]) |-> p - 1]
              /\ \E j \in DOMAIN log : \A k \in SortIndex :
                    /\ j < k
                    /\ log[j].op = "arg.getRecord" /\ log[j].s = s /\ ~log[j].ok
    /\ (IsOpen /\ emitted # <<>>) =>
          /\ irsb_hash_table.alloc /\ stats.build = 1
          /\ \A s \in Streams : stats.argRead[s] = Len(innerRows[s])
    /\ (IsOpen /\ irsb_hash_table.alloc) =>
          /\ \A idx \in DOMAIN irsb_hash_table.m_collisions :
                ListOf(idx) # <<>> /\ SortedByHash(ListOf(idx))
          /\ \A s \in Streams : \A p \in 0 .. (Len(innerRows[s]) - 1) : RowIndexed(s, p)
          /\ \A idx \in DOMAIN irsb_hash_table.m_collisions :
                \A k \in DOMAIN ListOf(idx) :
                    ListOf(idx)[k].position < Len(innerRows[idx \div HASH_SIZE])

C12_Witness ==
    /\ ReturnedTrue /\ Len(emitted) = 1
    /\ SortIndex # {}
    /\ \A s \in Streams : Len(innerRows[s]) = MaxInner
    /\ \E idx \in DOMAIN irsb_hash_table.m_collisions :
          /\ Len(ListOf(idx)) >= 2
          /\ ListOf(idx)[1].hash < ListOf(idx)[2].hash
          /\ ListOf(idx)[1].position > ListOf(idx)[2].position

-----------------------------------------------------------------------------
(* C13: whatever the state open is called in, when it returns irsb_flags   *)
(* is exactly irsb_open | irsb_mustread (irsb_first clear) and the table   *)
(* and the leader buffer are null.                                         *)
C13_OpenResets ==
    lastCall = "open" =>
        /\ irsb_flags = {irsb_open, irsb_mustread}
        /\ irsb_hash_table = NoTable
        /\ irsb_leader_buffer = NoBuffer
        /\ leader.open /\ leader.pos = 0
        /\ emitted = <<>>

(* open was called on an open operator: the inner streams are still open   *)
(* and hold the rows of the output returned last                           *)
C13_Witness ==
    /\ lastCall = "open"
    /\ \A s \in Streams : args[s].open /\ args[s].cur >= 0
    /\ irsb_flags = {irsb_open, irsb_mustread}

-----------------------------------------------------------------------------
(* The hash table on its own: the rows of the inner streams are put in     *)
(* build order, the table is sorted, and then setup, reset and iterate are *)
(* called in any order, reset and iterate only once setup has succeeded.   *)
(* `yielded` keeps, per stream, the positions iterate has given since the  *)
(* cursor was last set, whether iterate has said false since, and which    *)
(* call set the cursor and where it stood then.                            *)

Filled(t, s) ==
    Cardinality(UNION {{idx} \X DOMAIN t.m_collisions[idx].m_collisions :
                          idx \in {i \in DOMAIN t.m_collisions : i \div HASH_SIZE = s}})

Building == lastCall \in {"none", "put"}

ProbeHashes == {HashOf(hashKind, v) : v \in Vals}

TableInit ==
    /\ leaderRows = <<>>
    /\ innerRows \in [Streams -> SeqsUpTo(Vals, MaxInner)]
    /\ hashKind \in HashKinds
    /\ irsb_flags = {}
    /\ irsb_hash_table = NewHashTable
    /\ irsb_leader_buffer = NoBuffer
    /\ irsb_leader_hash = 0
    /\ leader = ClosedStream
    /\ args = [s \in Streams |-> ClosedStream]
    /\ log = <<>>
    /\ lastCall = "none"
    /\ lastResult = "none"
    /\ emitted = <<>>
    /\ stats = NoStats
    /\ yielded = NoYield
    /\ encoded = NoEncoding

TableFrame ==
    UNCHANGED <<leaderRows, innerRows, hashKind, irsb_flags, irsb_leader_buffer,
                leader, args, log, emitted, stats, encoded>>

PutAt(s, counter) ==
    /\ irsb_hash_table' =
          HashTable_put(irsb_hash_table, s, HashOf(hashKind, InnerKey(s, counter)), counter)
    /\ lastCall' = "put"
    /\ UNCHANGED <<irsb_leader_hash, lastResult, yielded>>
    /\ TableFrame

T_put ==
    /\ Building
    /\ \E s \in Streams :
          /\ \A q \in Streams : q < s => Filled(irsb_hash_table, q) = Len(innerRows[q])
          /\ Filled(irsb_hash_table, s) < Len(innerRows[s])
          /\ PutAt(s, Filled(irsb_hash_table, s))

T_sort ==
    /\ Building
    /\ \A s \in Streams : Filled(irsb_hash_table, s) = Len(innerRows[s])
    /\ \E pri \in [Streams -> Rankings(MaxInner)] :
          irsb_hash_table' = HashTable_sort(irsb_hash_table, pri)
    /\ lastCall' = "sort"
    /\ UNCHANGED <<irsb_leader_hash, lastResult, yielded>>
    /\ TableFrame

SetupStored(r, hash) ==
    /\ irsb_hash_table' = r.t
    /\ irsb_leader_hash' = hash
    /\ lastCall' = "setup"
    /\ lastResult' = IF r.ok THEN "true" ELSE "false"
    /\ yielded' = [ok |-> r.ok, by |-> [s \in Streams |-> CursorSet("setup", 0)]]
    /\ TableFrame

T_setup ==
    /\ ~Building
    /\ \E hash \in ProbeHashes : SetupStored(HashTable_setup(irsb_hash_table, hash), hash)

CursorOf(t, s) == t.m_collisions[SlotIndex(s, t.m_slot)].m_iterator

ResetStored(r, s) ==
    /\ irsb_hash_table' = r.t
    /\ lastCall' = "reset"
    /\ lastResult' = IF r.fault THEN "fault" ELSE "none"
    /\ yielded' = [yielded EXCEPT !.by[s] = CursorSet("reset", CursorOf(irsb_hash_table, s))]
    /\ UNCHANGED irsb_leader_hash
    /\ TableFrame

T_reset ==
    /\ ~Building /\ yielded.ok
    /\ \E s \in Streams :
          ResetStored(HashTable_reset(irsb_hash_table, s, irsb_leader_hash), s)

IterateStored(r, s) ==
    /\ irsb_hash_table' = r.t
    /\ lastCall' = "iterate"
    /\ lastResult' = IF r.fault THEN "fault" ELSE IF r.ok THEN "true" ELSE "false"
    /\ yielded' = IF r.ok
                  THEN [yielded EXCEPT !.by[s].positions = Append(@, r.position)]
                  ELSE [yielded EXCEPT !.by[s].ended = TRUE]
    /\ UNCHANGED irsb_leader_hash
    /\ TableFrame

T_iterate ==
    /\ ~Building /\ yielded.ok
    /\ \E s \in Streams :
          IterateStored(HashTable_iterate(irsb_hash_table, s, irsb_leader_hash), s)

TableNext == T_put \/ T_sort \/ T_setup \/ T_reset \/ T_iterate

TableSpec == TableInit /\ [][TableNext]_vars

-----------------------------------------------------------------------------
(* stream s has a list in the bucket of h, with an entry of hash h in it *)
HasEntry(s, h) ==
    /\ SlotIndex(s, h % HASH_SIZE) \in DOMAIN irsb_hash_table.m_collisions
    /\ \E k \in DOMAIN ListOf(SlotIndex(s, h % HASH_SIZE)) :
          ListOf(SlotIndex(s, h % HASH_SIZE))[k].hash = h

(* the 0-based index of the first entry of hash h in the list *)
FirstWith(list, h) ==
    (CHOOSE k \in DOMAIN list :
        list[k].hash = h /\ \A j \in 1 .. (k - 1) : list[j].hash # h) - 1

(* C14: on the built and sorted table setup(h) returns true exactly when   *)
(* every stream has a collision list in slot h mod m_tableSize holding an  *)
(* entry whose hash is h; when it returns true m_slot is h mod m_tableSize *)
(* and every stream's cursor is on the first entry of hash h in that slot. *)
C14_SetupIff ==
    lastCall = "setup" =>
        /\ lastResult = "true" <=> \A s \in Streams : HasEntry(s, irsb_leader_hash)
        /\ lastResult = "true" =>
              /\ irsb_hash_table.m_slot = irsb_leader_hash % HASH_SIZE
              /\ \A s \in Streams :
                    CursorOf(irsb_hash_table, s) =
                        FirstWith(ListOf(SlotIndex(s, irsb_hash_table.m_slot)),
                                  irsb_leader_hash)

C14_Witness ==
    /\ lastCall = "setup" /\ lastResult = "true"
    /\ irsb_hash_table.m_slot # 0
    /\ \A s \in Streams : Len(innerRows[s]) = MaxInner
    /\ \E s \in Streams : CursorOf(irsb_hash_table, s) = 1
    /\ \E s \in Streams : CursorOf(irsb_hash_table, s) = 0

-----------------------------------------------------------------------------
(* the positions of the entries of hash h in stream s's list of the        *)
(* current bucket, in list order                                           *)
BucketSeq(s) ==
    PositionsWith(ListOf(SlotIndex(s, irsb_hash_table.m_slot)), irsb_leader_hash)

(* C20: once setup(h) has returned true, reset(s, h), wherever the cursor  *)
(* of stream s stands, puts it on the first entry of hash h in the current *)
(* bucket, and the iterate(s, h) calls after it give what they give right  *)
(* after setup: the positions of the entries of hash h in list order, and  *)
(* then false.                                                             *)
C20_ResetRoundTrip ==
    yielded.ok =>
        \A s \in Streams :
            /\ IsPrefix(yielded.by[s].positions, BucketSeq(s))
            /\ yielded.by[s].ended => yielded.by[s].positions = BucketSeq(s)
            /\ (yielded.by[s].positions = <<>> /\ ~yielded.by[s].ended) =>
                  CursorOf(irsb_hash_table, s) =
                      FirstWith(ListOf(SlotIndex(s, irsb_hash_table.m_slot)),
                                irsb_leader_hash)
            /\ lastResult # "fault"

(* reset was called with the cursor in the middle of the matching entries, *)
(* and iterate has then given all of them again                            *)
C20_Witness ==
    /\ yielded.ok
    /\ \E s \in Streams :
          /\ yielded.by[s].from = "reset" /\ yielded.by[s].at = 1
          /\ yielded.by[s].ended
          /\ Len(yielded.by[s].positions) = MaxInner
    /\ \E s \in Streams :
          /\ yielded.by[s].from = "reset" /\ yielded.by[s].at = INVALID_ITERATOR
          /\ Len(BucketSeq(s)) < Len(ListOf(SlotIndex(s, irsb_hash_table.m_slot)))
          /\ yielded.by[s].ended

-----------------------------------------------------------------------------
SomeInnerEmpty == \E s \in Streams : innerRows[s] = <<>>

LeaderReads(lg) == {k \in DOMAIN lg : lg[k].op = "leader.getRecord"}

(* C15: when an inner stream has no rows getRecord never returns true, and *)
(* a getRecord call on the open operator leaves the leader read to its     *)
(* end: the first call of the cycle asks the leader for every row and once *)
(* more, and makes no fetch from the table.                                *)
C15_EmptyInner ==
    SomeInnerEmpty =>
        /\ lastResult # "true" /\ emitted = <<>>
        /\ (IsOpen /\ lastCall = "getRecord") =>
              /\ leader.pos = Len(leaderRows)
              /\ log[Len(log)] = Ev("leader.getRecord", 0 - 1, 1, FALSE)
              /\ \A k \in DOMAIN log : log[k].op \notin {"iterate", "reset", "arg.locate"}
              /\ Cardinality(LeaderReads(log)) \in {1, Len(leaderRows) + 1}
              /\ SortIndex # {} => Cardinality(LeaderReads(log)) = Len(leaderRows) + 1

C15_Witness ==
    /\ IsOpen /\ lastCall = "getRecord"
    /\ innerRows[ArgCount - 1] = <<>>
    /\ Len(innerRows[0]) = MaxInner
    /\ Len(leaderRows) = MaxLeader
    /\ \E s \in Streams \ {ArgCount - 1} :
          \A l \in LeaderIdx : HashOf(hashKind, LeaderKey(l)) = HashOf(hashKind, InnerKey(s, 0))
    /\ Cardinality(LeaderReads(log)) = MaxLeader + 1

-----------------------------------------------------------------------------
(* computeHash on its own: a sub-stream with up to MaxKeys keys of type    *)
(* long, float or double, whose key buffer is allocated once and then      *)
(* encoded into row after row.  `encoded` keeps the key types, the keys of *)
(* the latest row, the final keyPtr - keyBuffer and whether the buffer held *)
(* bytes of an earlier row under a NULL key of the latest one.             *)

DTypes == {"dtype_long", "dtype_real", "dtype_double"}

(* dsc_length of the type: the key length the constructor stores *)
KeyLengthOf(dtype) == IF dtype = "dtype_double" THEN 8 ELSE 4

PlusZero(dtype) == Zeros(KeyLengthOf(dtype))
MinusZero(dtype) == Zeros(KeyLengthOf(dtype) - 1) \o <<128>>
(* 1.0 as a float and as a double, 1 as a long; least byte first *)
One(dtype) ==
    CASE dtype = "dtype_real" -> <<0, 0, 128, 63>>
      [] dtype = "dtype_double" -> Zeros(6) \o <<240, 63>>
      [] OTHER -> LittleEndian(1, 4)

Desc(dtype, null, data) == [null |-> null, dtype |-> dtype, data |-> data]

(* what a key of the type can evaluate to: NULL (whatever the descriptor   *)
(* points at), 1, and the bytes of +0.0 and of -0.0; for a long the latter *)
(* are 0 and the least integer                                             *)
KeyDescs(dtype) ==
    {Desc(dtype, TRUE, One(dtype)), Desc(dtype, FALSE, One(dtype)),
     Desc(dtype, FALSE, PlusZero(dtype)), Desc(dtype, FALSE, MinusZero(dtype))}

Layouts == SeqsUpTo(DTypes, MaxKeys) \ {<<>>}

LengthsOf(dtypes) == [i \in DOMAIN dtypes |-> KeyLengthOf(dtypes[i])]

RECURSIVE RowsOf(_)
RowsOf(dtypes) ==
    IF dtypes = <<>> THEN {<<>>}
    ELSE {<<d>> \o row : d \in KeyDescs(Head(dtypes)), row \in RowsOf(Tail(dtypes))}

(* where key i starts in the buffer, and the bytes it occupies *)
OffsetOf(lens, i) == SumSeq(SubSeq(lens, 1, i - 1))
SliceOf(bytes, lens, i) == SubSeq(bytes, OffsetOf(lens, i) + 1, OffsetOf(lens, i) + lens[i])

(* an earlier row left bytes that are not zero where a key of this row is  *)
(* NULL                                                                    *)
StaleUnder(descs) ==
    /\ encoded.keys # <<>>
    /\ \E i \in DOMAIN descs :
          /\ descs[i].null
          /\ SliceOf(irsb_leader_buffer.bytes, LengthsOf(encoded.dtypes), i)
                # Zeros(KeyLengthOf(encoded.dtypes[i]))

EncInit ==
    /\ leaderRows = <<>>
    /\ innerRows = [s \in Streams |-> <<>>]
    /\ hashKind \in HashKinds
    /\ irsb_flags = {}
    /\ irsb_hash_table = NoTable
    /\ \E dtypes \in Layouts :
          /\ encoded = [NoEncoding EXCEPT !.dtypes = dtypes]
          /\ irsb_leader_buffer =
                [alloc |-> TRUE, bytes |-> Unwritten(SumSeq(LengthsOf(dtypes)))]
    /\ irsb_leader_hash = 0
    /\ leader = ClosedStream
    /\ args = [s \in Streams |-> ClosedStream]
    /\ log = <<>>
    /\ lastCall = "none"
    /\ lastResult = "none"
    /\ emitted = <<>>
    /\ stats = NoStats
    /\ yielded = NoYield

Hashed(k, descs) ==
    /\ irsb_leader_buffer' = [irsb_leader_buffer EXCEPT !.bytes = k.buf]
    /\ irsb_leader_hash' = InternalHash(hashKind, k.buf)
    /\ encoded' = [encoded EXCEPT !.keys = descs, !.keyPtr = k.keyPtr,
                                  !.stale = StaleUnder(descs)]
    /\ lastCall' = "computeHash"
    /\ UNCHANGED <<leaderRows, innerRows, hashKind, irsb_flags, irsb_hash_table,
                   leader, args, log, lastResult, emitted, stats, yielded>>

E_computeHash ==
    \E descs \in RowsOf(encoded.dtypes) :
        Hashed(KeyImage(irsb_leader_buffer.bytes, descs, LengthsOf(encoded.dtypes)), descs)

EncNext == E_computeHash

EncSpec == EncInit /\ [][EncNext]_vars

-----------------------------------------------------------------------------
IsFloat(dtype) == dtype \in {"dtype_real", "dtype_double"}

KeySlice(i) == SliceOf(irsb_leader_buffer.bytes, LengthsOf(encoded.dtypes), i)

IsSignedZero(d) == d.data \in {PlusZero(d.dtype), MinusZero(d.dtype)}

(* C16: a float or double key that is +0.0 or -0.0 is encoded as zero      *)
(* bytes, so both give one key image and one hash; any other float or      *)
(* double, and any long, whatever its bytes, is encoded as its raw bytes.  *)
C16_SignedZero ==
    /\ \A i \in DOMAIN encoded.keys :
          ~encoded.keys[i].null =>
              IF IsFloat(encoded.keys[i].dtype) /\ IsSignedZero(encoded.keys[i])
              THEN KeySlice(i) = PlusZero(encoded.keys[i].dtype)
              ELSE KeySlice(i) = encoded.keys[i].data
    /\ encoded.keys # <<>> =>
          irsb_leader_hash = InternalHash(hashKind, irsb_leader_buffer.bytes)

C16_Witness ==
    /\ lastCall = "computeHash"
    /\ \E i \in DOMAIN encoded.keys :
          /\ encoded.keys[i] = Desc("dtype_real", FALSE, MinusZero("dtype_real"))
          /\ KeySlice(i) = Zeros(4)
    /\ \E i \in DOMAIN encoded.keys :
          /\ encoded.keys[i] = Desc("dtype_double", FALSE, One("dtype_double"))
          /\ KeySlice(i) = One("dtype_double")

(* the bytes a key gives, from the key alone *)
ExpectedBytes(d) ==
    IF d.null \/ (IsFloat(d.dtype) /\ IsSignedZero(d))
    THEN Zeros(KeyLengthOf(d.dtype)) ELSE d.data

RECURSIVE ExpectedImage(_)
ExpectedImage(keys) ==
    IF keys = <<>> THEN <<>> ELSE ExpectedBytes(Head(keys)) \o ExpectedImage(Tail(keys))

(* C19: after computeHash the buffer holds, whatever it held before, the   *)
(* bytes of the keys one after the other, key i from the sum of the key    *)
(* lengths before it, a NULL key as zero bytes; the final write offset is  *)
(* totalKeyLength, and the hash is the hash of that image.                 *)
C19_KeyImage ==
    encoded.keys # <<>> =>
        /\ irsb_leader_buffer.bytes = ExpectedImage(encoded.keys)
        /\ \A i \in DOMAIN encoded.keys :
              /\ KeySlice(i) = ExpectedBytes(encoded.keys[i])
              /\ encoded.keys[i].null => KeySlice(i) = Zeros(KeyLengthOf(encoded.dtypes[i]))
        /\ encoded.keyPtr = SumSeq(LengthsOf(encoded.dtypes))
        /\ Len(irsb_leader_buffer.bytes) = SumSeq(LengthsOf(encoded.dtypes))
        /\ irsb_leader_hash = InternalHash(hashKind, ExpectedImage(encoded.keys))

(* the last key is NULL where the row encoded before left bytes that are   *)
(* not zero                                                                *)
C19_Witness ==
    /\ Len(encoded.keys) = MaxKeys
    /\ encoded.keys[MaxKeys].null
    /\ encoded.stale
    /\ encoded.dtypes[1] = "dtype_double"
    /\ OffsetOf(LengthsOf(encoded.dtypes), MaxKeys) > 0

-----------------------------------------------------------------------------
(* A request that gets cancelled.  JRD_reschedule, the first statement of  *)
(* internalGetRecord (line 355), raises when the request was cancelled or  *)
(* timed out; the exception leaves the call there.  The close that comes   *)
(* next keeps "cancelled" in lastResult.                                   *)

(* the leader read before the reschedule point is reached *)
Rescheduled_AfterRead(im) == Leader_getRecord(im).im

(* lines 353-355: the state the call is left in when JRD_reschedule raises *)
Rescheduled(im) == im

Raised(im) ==
    /\ Store(im)
    /\ lastCall' = "getRecord"
    /\ lastResult' = "cancelled"
    /\ UNCHANGED <<leaderRows, innerRows, hashKind, emitted, yielded, encoded>>

GetRecordCancelled == Raised(Rescheduled(Impure))

CloseTracked ==
    /\ Store(close(Impure))
    /\ lastCall' = "close"
    /\ lastResult' = IF lastResult = "cancelled" THEN "cancelled" ELSE "none"
    /\ UNCHANGED <<leaderRows, innerRows, hashKind, emitted, yielded, encoded>>

CancelNext == Open \/ GetRecord \/ GetRecordCancelled \/ CloseTracked

CancelSpec == Init /\ [][CancelNext]_vars

(* C17: a getRecord call left by the exception of the reschedule point     *)
(* changes neither the flags, the table, the leader buffer and hash, the   *)
(* table's cursors nor the position of any child; a close after it leaves  *)
(* irsb_open clear, the table and the leader buffer null and every child   *)
(* closed, each child of an open operator having been closed by it.        *)
C17_CancelSafe ==
    /\ [][(lastCall' = "getRecord" /\ lastResult' = "cancelled") =>
             /\ irsb_flags' = irsb_flags
             /\ irsb_hash_table' = irsb_hash_table
             /\ irsb_leader_buffer' = irsb_leader_buffer
             /\ irsb_leader_hash' = irsb_leader_hash
             /\ leader' = leader /\ args' = args
             /\ emitted' = emitted /\ log' = <<>>]_vars
    /\ [][lastCall' = "close" =>
             /\ irsb_open \notin irsb_flags'
             /\ irsb_hash_table' = NoTable
             /\ irsb_leader_buffer' = NoBuffer
             /\ ~leader'.open /\ \A s \in Streams : ~args'[s].open
             /\ IsOpen =>
                   /\ \E k \in DOMAIN log' : log'[k].op = "leader.close"
                   /\ \A s \in Streams :
                         \E k \in DOMAIN log' : log'[k].op = "arg.close" /\ log'[k].s = s]_vars

(* the call was left with the table built and a leader row half returned,  *)
(* and the operator then closed                                            *)
C17_Witness ==
    /\ lastCall = "close" /\ lastResult = "cancelled"
    /\ stats.build = 1 /\ stats.leaderClose = 1
    /\ \A s \in Streams : stats.argClose[s] = 1
    /\ emitted # <<>>
    /\ irsb_flags = {}

-----------------------------------------------------------------------------
(* HashJoin::lockRecord and status_exception::raise (fb_exception.cpp)     *)

isc_arg_end == "isc_arg_end"
isc_arg_gds == "isc_arg_gds"
isc_record_lock_not_supp == "isc_record_lock_not_supp"

(* Arg::Gds(code).value(): the status vector of one error code *)
Arg_Gds(code) == <<isc_arg_gds, code, isc_arg_end>>

(* makePermanentVector: copy the vector cluster by cluster up to and with  *)
(* isc_arg_end; a cluster that is no string is a type and one value.       *)
RECURSIVE makePermanentVector(_, _, _)
makePermanentVector(perm, trans, at) ==
    IF trans[at] = isc_arg_end THEN [perm EXCEPT ![at] = trans[at]]
    ELSE makePermanentVector([perm EXCEPT ![at] = trans[at], ![at + 1] = trans[at + 1]],
                             trans, at + 2)

(* status_exception(status_vector): m_status_vector, an ISC_STATUS_ARRAY   *)
(* of 20, cleared and then set from the vector                             *)
status_exception(status_vector) ==
    makePermanentVector([i \in 1 .. 20 |-> 0], status_vector, 1)

(* status_exception::raise: throws; `value` is what the exception carries *)
status_exception_raise(statusVector) ==
    [thrown |-> TRUE, value |-> status_exception(statusVector)]

(* the call returning to its caller with no exception raised *)
lockRecord_Silent(im) == [im |-> im, thrown |-> FALSE, value |-> <<>>]

lockRecord(im) ==
    [im |-> im,
     thrown |-> status_exception_raise(Arg_Gds(isc_record_lock_not_supp)).thrown,
     value |-> status_exception_raise(Arg_Gds(isc_record_lock_not_supp)).value]

(* the error a caller reads from the exception: status_vector[1] *)
ErrorOf(r) == IF r.thrown THEN r.value[2] ELSE "none"

Locked(r) ==
    /\ Store(r.im)
    /\ lastCall' = "lockRecord"
    /\ lastResult' = ErrorOf(r)
    /\ UNCHANGED <<leaderRows, innerRows, hashKind, emitted, yielded, encoded>>

LockRecord == Locked(lockRecord(Impure))

LockNext == Open \/ GetRecord \/ Close \/ LockRecord

LockSpec == Init /\ [][LockNext]_vars

(* C18: lockRecord ends with the exception whose error code is             *)
(* isc_record_lock_not_supp, whatever the state of the operator, and       *)
(* changes neither the flags, the table, the leader buffer and hash, the   *)
(* cursors nor a child, and calls none of them.                            *)
C18_LockRecordFails ==
    [][lastCall' = "lockRecord" =>
          /\ lastResult' = isc_record_lock_not_supp
          /\ irsb_flags' = irsb_flags
          /\ irsb_hash_table' = irsb_hash_table
          /\ irsb_leader_buffer' = irsb_leader_buffer
          /\ irsb_leader_hash' = irsb_leader_hash
          /\ leader' = leader /\ args' = args
          /\ emitted' = emitted /\ log' = <<>>]_vars

C18_Witness ==
    /\ lastCall = "lockRecord"
    /\ lastResult = isc_record_lock_not_supp
    /\ IsOpen /\ irsb_hash_table.alloc
    /\ irsb_mustread \notin irsb_flags
    /\ emitted # <<>>

-----------------------------------------------------------------------------
(* A consumer that opens the operator once and then keeps calling          *)
(* getRecord.                                                              *)

OpenOnce == lastCall = "none" /\ Open

GetNext == IsOpen /\ GetRecord

LiveNext == OpenOnce \/ GetNext

(* what a call may hand back *)
Rows == [leader : 0 .. (MaxLeader - 1), inner : [Streams -> 0 .. (MaxInner - 1)]]

(* what the consumer sees of a getRecord call made while the operator is   *)
(* open and has not yet returned false: the call returns, with false or    *)
(* with one more row                                                       *)
Calls ==
    /\ IsOpen /\ ~Drained
    /\ lastCall' = "getRecord"
    /\ \/ lastResult' = "false" /\ emitted' = emitted
       \/ lastResult' = "true" /\ \E o \in Rows : emitted' = Append(emitted, o)

(* the consumer keeps calling: a call is made as long as one is due *)
LiveSpec == Init /\ [][LiveNext]_vars /\ WF_<<lastCall, lastResult, emitted>>(Calls)

EventsOf(op) == {k \in DOMAIN log : log[k].op = op}

RECURSIVE InnerProduct(_)
InnerProduct(s) ==
    IF s >= ArgCount THEN 1 ELSE Len(innerRows[s]) * InnerProduct(s + 1)

(* the passes one call makes: of its loop, one per leader row left and one *)
(* more; of the carry loop, one per inner stream after the first, each     *)
(* reset being followed by a hit on the stream reset                       *)
BoundedCall ==
    /\ Cardinality(EventsOf("leader.getRecord")) <= Len(leaderRows) + 1
    /\ Cardinality(EventsOf("reset")) <= ArgCount - 1
    /\ Cardinality(EventsOf("iterate")) <= 3 * ArgCount
    /\ \A k \in EventsOf("reset") :
          /\ k < Len(log)
          /\ log[k + 1] = Ev("iterate", log[k].s, log[k + 1].x, TRUE)
    /\ Len(emitted) <= Len(leaderRows) * InnerProduct(0)

(* C21: every getRecord call made on the open operator returns, after a    *)
(* bounded number of passes of its loop and of the carry loop of           *)
(* fetchRecord; the rows returned in a cycle are at most the leader rows   *)
(* times the rows of every inner stream; and a consumer that keeps calling *)
(* getRecord after open gets false in the end.                             *)
C21_Terminates ==
    /\ []BoundedCall
    /\ [][IsOpen /\ ~Drained => Calls]_vars
    /\ (lastCall = "open") ~> Drained

C21_Witness ==
    /\ Drained
    /\ Len(leaderRows) = MaxLeader
    /\ Len(emitted) = MaxLeader * MaxInner * MaxInner
    /\ EventsOf("leader.getRecord") # {}

-----------------------------------------------------------------------------
(* The flags and the allocations between two calls *)

ReturnedFalse == lastCall = "getRecord" /\ lastResult = "false"

HasIndex == irsb_hash_table.alloc
HasScratch == irsb_leader_buffer.alloc

-----------------------------------------------------------------------------
(* The calls of one getRecord on the table, in the order they were made *)

Fetches == {k \in DOMAIN log : log[k].op \in {"iterate", "reset"}}

(* the last event before k that is a leader read or a setup *)
Turns(k) == {j \in 1 .. (k - 1) : log[j].op \in {"leader.getRecord", "setup"}}
LastTurn(k) == CHOOSE j \in Turns(k) : \A i \in Turns(k) : i <= j

Hashings(k) == {j \in 1 .. (k - 1) : log[j].op = "computeHash"}
LastHashing(k) == CHOOSE j \in Hashings(k) : \A i \in Hashings(k) : i <= j

(* the list of stream s in the remembered bucket exists *)
ListExists(s) == SlotIndex(s, irsb_hash_table.m_slot) \in DOMAIN irsb_hash_table.m_collisions

FailedSetups(lg) == {k \in DOMAIN lg : lg[k].op = "setup" /\ ~lg[k].ok}
Setups(lg) == {k \in DOMAIN lg : lg[k].op = "setup"}

(* C23: no iterate and no reset of a getRecord call finds the collision    *)
(* list of its stream in the remembered bucket absent; each is made after  *)
(* a setup that returned true for the leader hash in use, in this call or, *)
(* when the call starts with irsb_mustread clear, in an earlier one that   *)
(* left every stream a list with that hash in the remembered bucket; a     *)
(* setup that returned false is followed by a leader read or by the return *)
(* with irsb_mustread set; and a call none of whose setups returned true   *)
(* leaves the remembered bucket as it was.                                 *)
C23_NoAbsentSlot ==
    /\ [](/\ \A k \in Fetches :
                /\ log[k].op = "reset" => log[k].ok
                /\ log[k].op = "iterate" => log[k].x # INVALID_ITERATOR
                /\ Turns(k) # {} =>
                      /\ log[LastTurn(k)].op = "setup" /\ log[LastTurn(k)].ok
                      /\ Hashings(k) # {}
                      /\ log[LastHashing(k)].x = log[LastTurn(k)].x
                      /\ LastHashing(k) < LastTurn(k)
          /\ \A j \in FailedSetups(log) :
                IF j = Len(log) THEN irsb_mustread \in irsb_flags
                ELSE log[j + 1].op = "leader.getRecord"
          /\ (IsOpen /\ irsb_mustread \notin irsb_flags) =>
                /\ irsb_hash_table.m_slot = irsb_leader_hash % HASH_SIZE
                /\ \A s \in Streams : ListExists(s) /\ HasEntry(s, irsb_leader_hash))
    /\ [][(lastCall' = "getRecord" /\ Setups(log') = FailedSetups(log'))
              => irsb_hash_table'.m_slot = irsb_hash_table.m_slot]_vars

(* a setup that returned false for a hash of another bucket, a later one   *)
(* that returned true, and fetches after it from every stream              *)
C23_Witness ==
    /\ ReturnedTrue
    /\ \E j \in FailedSetups(log) :
          /\ log[j].x % HASH_SIZE # irsb_hash_table.m_slot
          /\ \A s \in Streams :
                \E k \in Fetches : k > j /\ log[k] = Ev("iterate", s, log[k].x, TRUE)

-----------------------------------------------------------------------------
(* A getRecord call left by an exception during the build of lines         *)
(* 374-402: the allocation of the table (379) or of the leader buffer      *)
(* (380) fails, or the open of an inner stream (389), one of its reads     *)
(* (394), the hashing of a row (396) or the put of it (397) raises.  What  *)
(* was assigned before the exception stays in the impure area.             *)

Alive == lastResult # "crashed"

AbortPoints ==
    {[at |-> "table", i |-> 0, n |-> 0], [at |-> "buffer", i |-> 0, n |-> 0]}
    \cup {[at |-> "open", i |-> i, n |-> 0] : i \in Streams}
    \cup UNION {{[at |-> "read", i |-> i, n |-> n] : n \in 0 .. Len(innerRows[i])} :
                   i \in Streams}

RECURSIVE ReadSome(_, _, _, _, _)

ReadOne(r, i, counter, n, h) ==
    ReadSome(PutRow(r.im, i, counter, h), i, counter + 1, n, h.buf)

(* the while loop of lines 394-398, left by an exception after n rows *)
ReadSome(im, i, counter, n, keyBuffer) ==
    IF counter >= n THEN im
    ELSE ReadOne(Arg_getRecord(im, i), i, counter, n,
                 computeHash(hashKind, keyBuffer,
                             <<EVL_expr(innerRows[i][im.args[i].pos + 1])>>,
                             KeyLengths))

(* the passes of the for loop of lines 384-399 made before stream `upto` *)
RECURSIVE BuildBefore(_, _, _, _)
BuildBefore(im, i, upto, keyBuffer) ==
    IF i >= upto THEN im
    ELSE BuildBefore(BuildRows(Arg_open(im, i), i, 0, keyBuffer), i + 1, upto, keyBuffer)

AbortedBuild(im, a) ==
    CASE a.at = "table" -> im
      [] a.at = "buffer" -> [im EXCEPT !.table = NewHashTable]
      [] a.at = "open" ->
            BuildBefore(Allocate(im), 0, a.i, Unwritten(TotalKeyLength))
      [] a.at = "read" ->
            ReadSome(Arg_open(BuildBefore(Allocate(im), 0, a.i,
                                          Unwritten(TotalKeyLength)), a.i),
                     a.i, 0, a.n, Unwritten(TotalKeyLength))

Thrown(im, result) ==
    /\ Store(im)
    /\ lastCall' = "getRecord"
    /\ lastResult' = result
    /\ UNCHANGED <<leaderRows, innerRows, hashKind, emitted, yielded, encoded>>

(* lines 369-374: the leader gave a row and the build is due *)
AbortAfterRead(r, a) ==
    /\ r.ok
    /\ NeedsBuild(r.im)
    /\ Thrown(AbortedBuild(r.im, a), "raised")

GetRecordAborted ==
    /\ Alive /\ IsOpen /\ irsb_mustread \in irsb_flags
    /\ \E a \in AbortPoints : AbortAfterRead(Leader_getRecord(Impure), a)

(* the call gets to line 406 with irsb_leader_buffer null *)
NullBuffer ==
    /\ IsOpen /\ irsb_mustread \in irsb_flags
    /\ leader.pos < Len(leaderRows)
    /\ irsb_hash_table.alloc /\ ~irsb_leader_buffer.alloc

(* computeHash clears and fills the key buffer through the null pointer    *)
(* (lines 541-611): undefined behaviour.  Either the process ends there,   *)
(* or the bytes land in memory and the call goes on.                       *)
GetRecordNullBuffer ==
    /\ Alive /\ NullBuffer
    /\ \/ Thrown(Logged(Leader_getRecord(Impure).im,
                        Ev("computeHash", 0 - 1, 0, FALSE)), "crashed")
       \/ \E pri \in SortOutcomes :
             Returned(internalGetRecord(
                 [Impure EXCEPT !.buf.bytes = Unwritten(TotalKeyLength)], pri))

OpenAlive == Alive /\ Open

GetRecordAlive == Alive /\ ~NullBuffer /\ GetRecord

CloseAlive == Alive /\ Close

AbortNext ==
    OpenAlive \/ GetRecordAlive \/ GetRecordAborted \/ GetRecordNullBuffer \/ CloseAlive

(* the keys of the rows are not null: what a null key does is not at issue *)
AbortInit ==
    /\ Init
    /\ \A k \in DOMAIN leaderRows : leaderRows[k] # VNull
    /\ \A s \in Streams : \A k \in DOMAIN innerRows[s] : innerRows[s][k] # VNull

AbortSpec == AbortInit /\ [][AbortNext]_vars

Probes == {k \in DOMAIN log : log[k].op \in {"computeHash", "setup"}}

(* every row of every inner stream is in the table, and every list sorted *)
IndexComplete ==
    /\ HasIndex
    /\ \A s \in Streams : \A p \in 0 .. (Len(innerRows[s]) - 1) : RowIndexed(s, p)
    /\ \A idx \in DOMAIN irsb_hash_table.m_collisions : SortedByHash(ListOf(idx))

(* C24: a getRecord call encodes the leader key and calls setup only when  *)
(* the leader buffer is allocated, every row of every inner stream is in   *)
(* the table and every collision list is sorted, also when earlier         *)
(* getRecord calls were left by an exception during the build.             *)
C24_ProbeComplete ==
    (lastCall = "getRecord" /\ Probes # {}) => (HasScratch /\ IndexComplete)

-----------------------------------------------------------------------------
(* The open and close calls made on the children *)

(* whether the child of event e is open: the leader has s = -1 *)
ChildOpen(e) == IF e.s < 0 THEN leader.open ELSE args[e.s].open

Openings(lg) == {k \in DOMAIN lg : lg[k].op \in {"leader.open", "arg.open"}}
Closings(lg) == {k \in DOMAIN lg : lg[k].op \in {"leader.close", "arg.close"}}

(* C25: in every call of open, getRecord and close, a child on which the   *)
(* call makes an open was not open before the call and a child on which    *)
(* it makes a close was open; no call opens or closes a child twice, so    *)
(* the open and close calls made on each child alternate, starting with    *)
(* open.                                                                   *)
C25_OpenCloseAlternate ==
    [][/\ \A k \in Openings(log') : ~ChildOpen(log'[k])
       /\ \A k \in Closings(log') : ChildOpen(log'[k])
       /\ \A j, k \in Openings(log') \cup Closings(log') :
             (log'[j].s = log'[k].s) => j = k]_vars

====
